---- MODULE Spec2Model ----
(***************************************************************************)
(* Model of app.py: the Streamlit upload shell (main) and the report       *)
(* builder (generate_report).  Every session runs main in its own thread   *)
(* of one Python process; the threads share the file system and pyplot's   *)
(* stack of figures.                                                       *)
(***************************************************************************)
EXTENDS Integers, Sequences, FiniteSets, TLC

\* ------------------------------------------------------------------ bounds
\* Most rows of a table in the runs that vary names, e-mails and courses.
MaxRows == 2
\* Most rows of a table in the runs that vary its columns and its times.
MaxRowsShell == 2
\* Most rows of a table when two sessions run at once.
MaxRowsConc == 1
\* Most calls of generate_report one session makes.
MaxCalls == 1

\* ------------------------------------------------------------ cell values
\* An empty spreadsheet cell, which pandas reads as NaN (NaT for a time).
NaN == 0

\* The four column labels, as written in the source.
NOMBRE == "Nombre y apellidos completos"
CORREO == "Correo de contacto"
CURSO == "Curso de interés"
HORA == "Hora de inicio"

required_columns == {NOMBRE, CORREO, CURSO, HORA}

\* A start-time cell: a typed Timestamp ("ts", t seconds), a text that parses
\* to t ("text"), a text that does not parse ("bad"), or an empty cell ("nat").
Timestamp(t) == [kind |-> "ts", t |-> t]
TimeText(t) == [kind |-> "text", t |-> t]
BadText == [kind |-> "bad", t |-> NaN]
NaT == [kind |-> "nat", t |-> NaN]

\* Seconds in a minute: strftime's '%d/%m/%Y %H:%M' drops the seconds.
SecondsPerMinute == 60

MkRow(n, e, c, h) ==
  [col \in required_columns |->
     CASE col = NOMBRE -> n
       [] col = CORREO -> e
       [] col = CURSO -> c
       [] OTHER -> h]

\* No file uploaded (st.file_uploader returns None), no DataFrame yet.
None == [none |-> TRUE]

SeqToSet(s) == {s[i] : i \in DOMAIN s}

\* ------------------------------------------------------- pandas operators
\* df[col] as the sequence of the column's cells.
Column(rows, col) == [i \in DOMAIN rows |-> rows[i][col]]

\* Series.nunique(): distinct values, NaN not counted (dropna=True).
nunique(cells) == Cardinality({x \in SeqToSet(cells) : x # NaN})

\* Series.dtype != 'datetime64[ns]': read_excel types a column datetime64[ns]
\* when it holds Timestamps (and empty cells) only; a column with any text,
\* with empty cells only, or with no cell at all is object or float64.
IsDatetime64(cells) ==
  /\ \A i \in DOMAIN cells : cells[i].kind \in {"ts", "nat"}
  /\ \E i \in DOMAIN cells : cells[i].kind = "ts"

\* pd.to_datetime(..., errors='coerce'): nothing raises, bad text becomes NaT.
to_datetime_coerce(cells) == FALSE

\* pd.to_datetime raises when a cell holds a text that does not parse.
to_datetime_raises(cells) == \E i \in DOMAIN cells : cells[i].kind = "bad"

\* pd.to_datetime on one cell: a parsable text becomes the Timestamp it
\* denotes, an empty cell becomes NaT.
to_datetime_cell(c) ==
  IF c.kind = "text" THEN Timestamp(c.t)
  ELSE IF c.kind = "ts" THEN c
  ELSE NaT

\* df['Hora de inicio'] = pd.to_datetime(df['Hora de inicio']), in place.
to_datetime(rows) ==
  [i \in DOMAIN rows |-> [rows[i] EXCEPT ![HORA] = to_datetime_cell(@)]]

\* The Timestamps of a datetime column, NaT skipped (skipna=True).
Valid(cells) == {cells[i].t : i \in {j \in DOMAIN cells : cells[j].kind = "ts"}}

\* Series.min() / Series.max(): NaT when no Timestamp is left.
series_min(cells) ==
  IF Valid(cells) = {} THEN NaT
  ELSE Timestamp(CHOOSE t \in Valid(cells) : \A u \in Valid(cells) : t <= u)
series_max(cells) ==
  IF Valid(cells) = {} THEN NaT
  ELSE Timestamp(CHOOSE t \in Valid(cells) : \A u \in Valid(cells) : t >= u)

\* Timestamp.strftime('%d/%m/%Y %H:%M'): the time to the minute.
\* NaT.strftime raises ValueError (see strftime_raises).
strftime(ts) == [minute |-> ts.t \div SecondsPerMinute]
strftime_raises(ts) == ts.kind = "nat"

\* df[df['Curso de interés'] == curso]: the rows of one course, in order.
RowsOf(rows, curso) == SelectSeq(rows, LAMBDA r : r[CURSO] = curso)

\* groupby('Curso de interés'): the group keys, NaN keys dropped.
GroupKeys(rows) == {c \in SeqToSet(Column(rows, CURSO)) : c # NaN}

\* groupby(...).agg({'Nombre y apellidos completos': 'nunique'}) for one key.
Cantidad(rows, curso) == nunique(Column(RowsOf(rows, curso), NOMBRE))

\* All sequences that list each element of set S exactly once.
Orderings(S) ==
  {s \in [1..Cardinality(S) -> S] : \A i, j \in 1..Cardinality(S) : i # j => s[i] # s[j]}

\* sort_values('Cantidad de inscritos', ascending=False): the default sort
\* is not stable, so any order of the tied groups is an outcome.
SortedByCantidad(rows) ==
  {[i \in DOMAIN s |-> [curso |-> s[i], cantidad |-> Cantidad(rows, s[i])]] :
     s \in {o \in Orderings(GroupKeys(rows)) :
              \A i, j \in DOMAIN o :
                i < j => Cantidad(rows, o[i]) >= Cantidad(rows, o[j])}}

\* The (name, e-mail) pair of a row.
Pair(r) == <<r[NOMBRE], r[CORREO]>>

\* drop_duplicates(subset=[name]): the first row of each name is kept.
RECURSIVE drop_duplicates_by_name(_)
drop_duplicates_by_name(rows) ==
  IF rows = <<>> THEN <<>>
  ELSE LET n == Len(rows)
           kept == drop_duplicates_by_name(SubSeq(rows, 1, n - 1))
       IN IF \E i \in 1..(n - 1) : rows[i][NOMBRE] = rows[n][NOMBRE]
          THEN kept
          ELSE Append(kept, rows[n])

\* drop_duplicates(subset=[name, e-mail]): the first row of each pair is kept
\* (NaN equals NaN here), the order of the kept rows unchanged.
RECURSIVE drop_duplicates(_)
drop_duplicates(rows) ==
  IF rows = <<>> THEN <<>>
  ELSE LET n == Len(rows)
           front == SubSeq(rows, 1, n - 1)
           kept == drop_duplicates(front)
       IN IF \E i \in 1..(n - 1) : Pair(rows[i]) = Pair(rows[n])
          THEN kept
          ELSE Append(kept, rows[n])

\* Name a sorts no later than name b: ascending, NaN last (na_position).
NameLeq(a, b) == IF b = NaN THEN TRUE ELSE IF a = NaN THEN FALSE ELSE a <= b

\* sort_values('Nombre y apellidos completos'): the rows rearranged in
\* ascending order of name; rows with equal names may come in any order.
sort_values(rows) ==
  {[i \in DOMAIN rows |-> rows[p[i]]] :
     p \in {q \in Orderings(DOMAIN rows) :
              \A i, j \in DOMAIN rows :
                i < j => NameLeq(rows[q[i]][NOMBRE], rows[q[j]][NOMBRE])}}

\* The table rows below the header: one [name, e-mail] list per row.
datos_tabla(curso_df) == [i \in DOMAIN curso_df |-> Pair(curso_df[i])]

\* One course section: heading "Curso: <curso> (<n> inscritos)" and table.
Section(curso, curso_df) ==
  [curso |-> curso, inscritos |-> Len(curso_df), tabla |-> datos_tabla(curso_df)]

\* The sections of one course that the loop body can produce.
SectionsOf(rows, curso) ==
  {Section(curso, sorted) : sorted \in sort_values(drop_duplicates(RowsOf(rows, curso)))}

\* for curso in conteo_cursos.index: the sequences of sections, in that order.
RECURSIVE Sections(_, _)
Sections(rows, conteo) ==
  IF conteo = <<>> THEN {<<>>}
  ELSE {<<sec>> \o rest : sec \in SectionsOf(rows, Head(conteo).curso),
                          rest \in Sections(rows, Tail(conteo))}

\* ------------------------------------------------------------------ state
\* The sessions (each runs main in a thread of its own).
Sessions == {1, 2}

VARIABLES
  uploaded_file,   \* per session: the uploaded table, or None
  pc,              \* per session: the line the thread is at
  df,              \* per session: the caller's DataFrame (columns and rows)
  clicked,         \* per session: st.button's value in the current run
  button,          \* per session: the button was drawn by the last run
  msg,             \* per session: what st.error / st.success last showed
  caller,          \* per session: who called generate_report
  df_in,           \* per session: the DataFrame as it was when passed in
  calls,           \* per session: calls of generate_report started
  total_inscritos, \* per session: local of generate_report
  fechas,          \* per session: locals fecha_min, fecha_max
  conteo_cursos,   \* per session: local of generate_report
  result,          \* per session: what the last call returned or raised
  pdf_bytes,       \* per session: the bytes main read for the download
  files,           \* the temporary directory: path -> content
  figs             \* pyplot's figures, oldest first; the last is current

vars == <<uploaded_file, pc, df, clicked, button, msg, caller, df_in, calls,
          total_inscritos, fechas, conteo_cursos, result, pdf_bytes, files, figs>>

\* A DataFrame read from an uploaded table.
DataFrame(table) == [cols |-> table.cols, rows |-> table.rows]

\* tempfile.NamedTemporaryFile(delete=False, suffix=...): a name no other
\* call has; the file exists, empty, once the with block is left.
pdf_path(p) == <<p, calls[p], "pdf">>
chart_path(p) == <<p, calls[p], "png">>

EmptyFile == [kind |-> "empty"]
PartialFile == [kind |-> "partial"]

Write(fs, path, content) ==
  [f \in DOMAIN fs \cup {path} |-> IF f = path THEN content ELSE fs[f]]

\* os.unlink(path)
Unlink(fs, path) == [f \in DOMAIN fs \ {path} |-> fs[f]]

NoResult == [kind |-> "none"]
Returned(path) == [kind |-> "path", path |-> path]
Raised(e) == [kind |-> "raised", error |-> e]

NoMsg == [kind |-> "none"]
NoBytes == [kind |-> "none"]

\* A new, empty figure.
EmptyFigure == [bars |-> <<>>, texts |-> <<>>]

\* plt.gcf(): the current figure; one is created when there is none.
WithCurrent(fs) == IF fs = <<>> THEN <<EmptyFigure>> ELSE fs
Current(fs) == WithCurrent(fs)[Len(WithCurrent(fs))]
SetCurrent(fs, fig) == [WithCurrent(fs) EXCEPT ![Len(WithCurrent(fs))] = fig]

\* The lines of generate_report.
GenLabels ==
  {"g_tempfiles", "g_total", "g_fechas", "g_conteo", "g_figure", "g_bar",
   "g_text", "g_savefig", "g_close", "g_build", "g_unlink", "g_return"}

\* An exception leaves generate_report (it has no try block): main's except
\* clause shows it (lines 218-220); a direct caller receives it.
Raise(p, e) ==
  /\ result' = [result EXCEPT ![p] = Raised(e)]
  /\ total_inscritos' = [total_inscritos EXCEPT ![p] = 0]
  /\ fechas' = [fechas EXCEPT ![p] = None]
  /\ conteo_cursos' = [conteo_cursos EXCEPT ![p] = <<>>]
  /\ msg' = [msg EXCEPT ![p] =
               IF caller[p] = "main" THEN [kind |-> "error", error |-> e] ELSE @]
  /\ pc' = [pc EXCEPT ![p] = "idle"]

Goto(p, label) == pc' = [pc EXCEPT ![p] = label]

\* ----------------------------------------------------------- upload shell
\* A check that looks for the start-time column only.
missing_columns_hora(d) == {col \in {HORA} : col \notin d.cols}

\* missing_columns = [col for col in required_columns if col not in df.columns]
missing_columns(d) == {col \in required_columns : col \notin d.cols}

\* A script run starts (lines 150-167): any interaction reruns main, whose
\* variables are bound anew; the button can be clicked only when the last
\* run drew it.  Without a file the run draws the page and ends.
RunScript(p) ==
  /\ pc[p] = "idle"
  /\ \E click \in (IF button[p] /\ calls[p] < MaxCalls THEN BOOLEAN ELSE {FALSE}) :
       clicked' = [clicked EXCEPT ![p] = click]
  /\ button' = [button EXCEPT ![p] = FALSE]
  /\ msg' = [msg EXCEPT ![p] = NoMsg]
  /\ pdf_bytes' = [pdf_bytes EXCEPT ![p] = NoBytes]
  /\ result' = [result EXCEPT ![p] = NoResult]
  /\ caller' = [caller EXCEPT ![p] = "none"]
  /\ df_in' = [df_in EXCEPT ![p] = None]
  /\ IF uploaded_file[p] = None
       THEN /\ Goto(p, "idle")
            /\ UNCHANGED df
       ELSE /\ Goto(p, "m_columns")
            /\ df' = [df EXCEPT ![p] = DataFrame(uploaded_file[p])]
  /\ UNCHANGED <<uploaded_file, calls, total_inscritos, fechas,
                 conteo_cursos, files, figs>>

\* Lines 170-176: the column check.
CheckColumns(p) ==
  /\ pc[p] = "m_columns"
  /\ IF missing_columns(df[p]) # {}
       THEN /\ msg' = [msg EXCEPT ![p] =
                         [kind |-> "missing", columns |-> missing_columns(df[p])]]
            /\ Goto(p, "idle")
       ELSE /\ msg' = [msg EXCEPT ![p] = [kind |-> "loaded"]]
            /\ Goto(p, "m_stats")
  /\ UNCHANGED <<uploaded_file, df, clicked, button, caller, df_in, calls,
                 total_inscritos, fechas, conteo_cursos, result, pdf_bytes,
                 files, figs>>

\* Lines 179-194: preview and statistics; when the table has a start-time
\* column (line 190) the start times are converted in main's own DataFrame,
\* and a text that does not parse raises into the except clause.
Statistics(p) ==
  /\ pc[p] = "m_stats"
  /\ LET hora == Column(df[p].rows, HORA)
     IN IF HORA \notin df[p].cols \/ IsDatetime64(hora)
          THEN /\ Goto(p, "m_button")
               /\ UNCHANGED <<df, msg>>
          ELSE IF to_datetime_raises(hora)
          THEN /\ msg' = [msg EXCEPT ![p] =
                            [kind |-> "error", error |-> "DateParseError"]]
               /\ Goto(p, "idle")
               /\ UNCHANGED df
          ELSE /\ df' = [df EXCEPT ![p].rows = to_datetime(@)]
               /\ Goto(p, "m_button")
               /\ UNCHANGED msg
  /\ UNCHANGED <<uploaded_file, clicked, button, caller, df_in, calls,
                 total_inscritos, fechas, conteo_cursos, result, pdf_bytes,
                 files, figs>>

\* Line 197-199: the button is drawn; when it was clicked, generate_report
\* is called with main's DataFrame.
Button(p) ==
  /\ pc[p] = "m_button"
  /\ button' = [button EXCEPT ![p] = TRUE]
  /\ IF clicked[p]
       THEN /\ caller' = [caller EXCEPT ![p] = "main"]
            /\ df_in' = [df_in EXCEPT ![p] = df[p]]
            /\ calls' = [calls EXCEPT ![p] = @ + 1]
            /\ result' = [result EXCEPT ![p] = NoResult]
            /\ Goto(p, "g_tempfiles")
       ELSE /\ Goto(p, "idle")
            /\ UNCHANGED <<caller, df_in, calls, result>>
  /\ UNCHANGED <<uploaded_file, df, clicked, msg, total_inscritos, fechas,
                 conteo_cursos, pdf_bytes, files, figs>>

\* generate_report called by other code (it is a plain module function) with
\* a DataFrame of its own that has the four columns, the builder's input.
Call(p) ==
  /\ pc[p] = "idle"
  /\ uploaded_file[p] # None
  /\ uploaded_file[p].cols = required_columns
  /\ calls[p] < MaxCalls
  /\ df' = [df EXCEPT ![p] = DataFrame(uploaded_file[p])]
  /\ df_in' = [df_in EXCEPT ![p] = DataFrame(uploaded_file[p])]
  /\ caller' = [caller EXCEPT ![p] = "direct"]
  /\ calls' = [calls EXCEPT ![p] = @ + 1]
  /\ result' = [result EXCEPT ![p] = NoResult]
  /\ button' = [button EXCEPT ![p] = FALSE]
  /\ msg' = [msg EXCEPT ![p] = NoMsg]
  /\ pdf_bytes' = [pdf_bytes EXCEPT ![p] = NoBytes]
  /\ Goto(p, "g_tempfiles")
  /\ UNCHANGED <<uploaded_file, clicked, total_inscritos, fechas,
                 conteo_cursos, files, figs>>

\* -------------------------------------------------------- generate_report
\* Lines 25-31: the two temporary files are created and left on disk.
TempFiles(p) ==
  /\ pc[p] = "g_tempfiles"
  /\ files' = Write(Write(files, pdf_path(p), EmptyFile), chart_path(p), EmptyFile)
  /\ Goto(p, "g_total")
  /\ UNCHANGED <<uploaded_file, df, clicked, button, msg, caller, df_in, calls,
                 total_inscritos, fechas, conteo_cursos, result, pdf_bytes, figs>>

\* Line 34: total_inscritos = df[NOMBRE].nunique()
Total(p) ==
  /\ pc[p] = "g_total"
  /\ IF NOMBRE \notin df[p].cols
       THEN Raise(p, "KeyError")
       ELSE /\ total_inscritos' =
                 [total_inscritos EXCEPT ![p] = nunique(Column(df[p].rows, NOMBRE))]
            /\ Goto(p, "g_fechas")
            /\ UNCHANGED <<result, msg, fechas, conteo_cursos>>
  /\ UNCHANGED <<uploaded_file, df, clicked, button, caller, df_in, calls,
                 pdf_bytes, files, figs>>

\* Lines 37-41: the start times are converted in the DataFrame that was
\* passed in, then the earliest and the latest are formatted.
Fechas(p) ==
  /\ pc[p] = "g_fechas"
  /\ IF HORA \notin df[p].cols
       THEN /\ Raise(p, "KeyError")
            /\ UNCHANGED df
       ELSE
       LET hora == Column(df[p].rows, HORA)
           rows == IF IsDatetime64(hora) THEN df[p].rows ELSE to_datetime(df[p].rows)
           fmin == series_min(Column(rows, HORA))
           fmax == series_max(Column(rows, HORA))
       IN IF ~IsDatetime64(hora) /\ to_datetime_raises(hora)
            THEN /\ Raise(p, "DateParseError")
                 /\ UNCHANGED df
          ELSE IF strftime_raises(fmin)
            THEN /\ df' = [df EXCEPT ![p].rows = rows]
                 /\ Raise(p, "ValueError")
          ELSE /\ df' = [df EXCEPT ![p].rows = rows]
               /\ fechas' = [fechas EXCEPT ![p] =
                               [fecha_min |-> strftime(fmin), fecha_max |-> strftime(fmax)]]
               /\ Goto(p, "g_conteo")
               /\ UNCHANGED <<result, msg, total_inscritos, conteo_cursos>>
  /\ UNCHANGED <<uploaded_file, clicked, button, caller, df_in, calls,
                 pdf_bytes, files, figs>>

\* Lines 44-46: conteo_cursos, the courses by descending count.
Conteo(p) ==
  /\ pc[p] = "g_conteo"
  /\ IF CURSO \notin df[p].cols
       THEN Raise(p, "KeyError")
       ELSE /\ \E conteo \in SortedByCantidad(df[p].rows) :
                 conteo_cursos' = [conteo_cursos EXCEPT ![p] = conteo]
            /\ Goto(p, "g_figure")
            /\ UNCHANGED <<result, msg, total_inscritos, fechas>>
  /\ UNCHANGED <<uploaded_file, df, clicked, button, caller, df_in, calls,
                 pdf_bytes, files, figs>>

\* Line 49: plt.figure() opens a figure and makes it the current one.
Figure(p) ==
  /\ pc[p] = "g_figure"
  /\ figs' = Append(figs, EmptyFigure)
  /\ Goto(p, "g_bar")
  /\ UNCHANGED <<uploaded_file, df, clicked, button, msg, caller, df_in, calls,
                 total_inscritos, fechas, conteo_cursos, result, pdf_bytes, files>>

\* Line 50: plt.bar draws one bar per course on the current figure.
Bar(p) ==
  /\ pc[p] = "g_bar"
  /\ figs' = SetCurrent(figs, [Current(figs) EXCEPT !.bars = @ \o conteo_cursos[p]])
  /\ Goto(p, "g_text")
  /\ UNCHANGED <<uploaded_file, df, clicked, button, msg, caller, df_in, calls,
                 total_inscritos, fechas, conteo_cursos, result, pdf_bytes, files>>

\* Lines 53-62: plt.text writes each of this call's bar heights on the
\* current figure; ticks, axis labels and title follow.
Text(p) ==
  /\ pc[p] = "g_text"
  /\ figs' = SetCurrent(figs,
               [Current(figs) EXCEPT
                  !.texts = @ \o [i \in DOMAIN conteo_cursos[p] |-> conteo_cursos[p][i].cantidad]])
  /\ Goto(p, "g_savefig")
  /\ UNCHANGED <<uploaded_file, df, clicked, button, msg, caller, df_in, calls,
                 total_inscritos, fechas, conteo_cursos, result, pdf_bytes, files>>

\* Line 65: plt.savefig writes the current figure to chart_path; the write
\* can fail (disk full, backend error).
SaveFig(p) ==
  /\ pc[p] = "g_savefig"
  /\ figs' = WithCurrent(figs)
  /\ \E ok \in BOOLEAN :
       IF ok
         THEN /\ files' = Write(files, chart_path(p),
                                [kind |-> "png", figure |-> Current(figs)])
              /\ Goto(p, "g_close")
              /\ UNCHANGED <<result, msg, total_inscritos, fechas, conteo_cursos>>
         ELSE /\ files' = Write(files, chart_path(p), PartialFile)
              /\ Raise(p, "RenderError")
  /\ UNCHANGED <<uploaded_file, df, clicked, button, caller, df_in, calls, pdf_bytes>>

\* Line 66: plt.close() closes the current figure, when there is one.
Close(p) ==
  /\ pc[p] = "g_close"
  /\ figs' = IF figs = <<>> THEN figs ELSE SubSeq(figs, 1, Len(figs) - 1)
  /\ Goto(p, "g_build")
  /\ UNCHANGED <<uploaded_file, df, clicked, button, msg, caller, df_in, calls,
                 total_inscritos, fechas, conteo_cursos, result, pdf_bytes, files>>

\* The document: general information, the chart image, the course sections.
Document(total, f, chart, sections) ==
  [kind |-> "pdf", total |-> total, fecha_min |-> f.fecha_min,
   fecha_max |-> f.fecha_max, chart |-> chart, sections |-> sections]

\* Lines 69-141: elementos is assembled (one section per course of
\* conteo_cursos) and doc.build writes the PDF, reading the chart image
\* from chart_path; the build can fail part way.
Build(p) ==
  /\ pc[p] = "g_build"
  /\ IF conteo_cursos[p] # <<>> /\ CORREO \notin df[p].cols
       THEN /\ Raise(p, "KeyError")
            /\ UNCHANGED files
       ELSE \E sections \in Sections(df[p].rows, conteo_cursos[p]), ok \in BOOLEAN :
              IF ok
                THEN /\ files' = Write(files, pdf_path(p),
                                       Document(total_inscritos[p], fechas[p],
                                                files[chart_path(p)], sections))
                     /\ Goto(p, "g_unlink")
                     /\ UNCHANGED <<result, msg, total_inscritos, fechas, conteo_cursos>>
                ELSE /\ files' = Write(files, pdf_path(p), PartialFile)
                     /\ Raise(p, "RenderError")
  /\ UNCHANGED <<uploaded_file, df, clicked, button, caller, df_in, calls,
                 pdf_bytes, figs>>

\* Line 144: os.unlink(chart_path)
UnlinkChart(p) ==
  /\ pc[p] = "g_unlink"
  /\ files' = Unlink(files, chart_path(p))
  /\ Goto(p, "g_return")
  /\ UNCHANGED <<uploaded_file, df, clicked, button, msg, caller, df_in, calls,
                 total_inscritos, fechas, conteo_cursos, result, pdf_bytes, figs>>

\* Line 146: return pdf_path; the locals go, main goes on to read the file.
Return(p) ==
  /\ pc[p] = "g_return"
  /\ result' = [result EXCEPT ![p] = Returned(pdf_path(p))]
  /\ total_inscritos' = [total_inscritos EXCEPT ![p] = 0]
  /\ fechas' = [fechas EXCEPT ![p] = None]
  /\ conteo_cursos' = [conteo_cursos EXCEPT ![p] = <<>>]
  /\ Goto(p, IF caller[p] = "main" THEN "m_open" ELSE "idle")
  /\ UNCHANGED <<uploaded_file, df, clicked, button, msg, caller, df_in, calls,
                 pdf_bytes, files, figs>>

\* ------------------------------------------------- upload shell, the rest
\* Lines 202-203: the generated PDF is read.
ReadPdf(p) ==
  /\ pc[p] = "m_open"
  /\ pdf_bytes' = [pdf_bytes EXCEPT ![p] = files[result[p].path]]
  /\ Goto(p, "m_unlink")
  /\ UNCHANGED <<uploaded_file, df, clicked, button, msg, caller, df_in, calls,
                 total_inscritos, fechas, conteo_cursos, result, files, figs>>

\* Line 206: os.unlink(pdf_path)
UnlinkPdf(p) ==
  /\ pc[p] = "m_unlink"
  /\ files' = Unlink(files, result[p].path)
  /\ Goto(p, "m_download")
  /\ UNCHANGED <<uploaded_file, df, clicked, button, msg, caller, df_in, calls,
                 total_inscritos, fechas, conteo_cursos, result, pdf_bytes, figs>>

\* Lines 209-216: the download button and the success message.
Download(p) ==
  /\ pc[p] = "m_download"
  /\ msg' = [msg EXCEPT ![p] = [kind |-> "success"]]
  /\ Goto(p, "idle")
  /\ UNCHANGED <<uploaded_file, df, clicked, button, caller, df_in, calls,
                 total_inscritos, fechas, conteo_cursos, result, pdf_bytes,
                 files, figs>>

\* ---------------------------------------------------------- specification
Next ==
  \E p \in Sessions :
    \/ RunScript(p)
    \/ CheckColumns(p)
    \/ Statistics(p)
    \/ Button(p)
    \/ Call(p)
    \/ TempFiles(p)
    \/ Total(p)
    \/ Fechas(p)
    \/ Conteo(p)
    \/ Figure(p)
    \/ Bar(p)
    \/ Text(p)
    \/ SaveFig(p)
    \/ Close(p)
    \/ Build(p)
    \/ UnlinkChart(p)
    \/ Return(p)
    \/ ReadPdf(p)
    \/ UnlinkPdf(p)
    \/ Download(p)

\* All sequences over S of length at most n.
SeqsUpTo(S, n) == UNION {[1..k -> S] : k \in 0..n}

\* A table whose columns are cols: the cells of the other columns are absent.
Table(cols, rows) ==
  [cols |-> cols,
   rows |-> [i \in DOMAIN rows |->
               [col \in required_columns |->
                  IF col \in cols THEN rows[i][col]
                  ELSE IF col = HORA THEN NaT ELSE NaN]]]

\* The state once the process has started and the sessions have their files.
InitWith(uploads) ==
  /\ uploaded_file \in uploads
  /\ pc = [p \in Sessions |-> "idle"]
  /\ df = [p \in Sessions |-> None]
  /\ clicked = [p \in Sessions |-> FALSE]
  /\ button = [p \in Sessions |-> FALSE]
  /\ msg = [p \in Sessions |-> NoMsg]
  /\ caller = [p \in Sessions |-> "none"]
  /\ df_in = [p \in Sessions |-> None]
  /\ calls = [p \in Sessions |-> 0]
  /\ total_inscritos = [p \in Sessions |-> 0]
  /\ fechas = [p \in Sessions |-> None]
  /\ conteo_cursos = [p \in Sessions |-> <<>>]
  /\ result = [p \in Sessions |-> NoResult]
  /\ pdf_bytes = [p \in Sessions |-> NoBytes]
  /\ files = <<>>
  /\ figs = <<>>

\* Tables that vary the columns present and the kinds of start time.
ShellRows ==
  {MkRow(1, 1, c, h) : c \in {1, 2},
                       h \in {Timestamp(30), Timestamp(90), TimeText(30), BadText, NaT}}
ShellTables ==
  {Table(cols, rows) : cols \in SUBSET required_columns,
                       rows \in SeqsUpTo(ShellRows, MaxRowsShell)}

\* Tables that vary names, e-mails and courses (NaN is an empty cell).
RosterRows ==
  {MkRow(n, e, c, Timestamp(30)) : n \in {1, 2}, e \in {1, 2}, c \in {NaN, 1, 2}}

\* Larger tables, written out.  Person 1 twice in course 1 with one e-mail,
\* person 2 once in course 2:
ScenarioDuplicate ==
  <<MkRow(1, 1, 1, Timestamp(30)), MkRow(1, 1, 1, Timestamp(90)),
    MkRow(2, 2, 2, Timestamp(30))>>
\* one name under three e-mails in course 1, two names in course 2:
ScenarioSameName ==
  <<MkRow(1, 1, 1, Timestamp(30)), MkRow(1, 2, 1, Timestamp(30)),
    MkRow(1, 3, 1, Timestamp(30)), MkRow(1, 1, 2, Timestamp(30)),
    MkRow(2, 1, 2, Timestamp(30))>>
\* names out of order and a repeated pair in course 1, one row in course 2:
ScenarioUnsorted ==
  <<MkRow(2, 1, 1, Timestamp(30)), MkRow(1, 2, 1, Timestamp(30)),
    MkRow(2, 1, 1, Timestamp(90)), MkRow(1, 1, 2, Timestamp(30))>>
\* rows without a name:
ScenarioNoName ==
  <<MkRow(NaN, 1, 1, Timestamp(30)), MkRow(2, NaN, 1, Timestamp(30)),
    MkRow(1, 1, 1, Timestamp(30)), MkRow(NaN, 2, 1, Timestamp(30))>>
Scenarios == {ScenarioDuplicate, ScenarioSameName, ScenarioUnsorted, ScenarioNoName}

RosterTables ==
  {Table(required_columns, rows) : rows \in SeqsUpTo(RosterRows, MaxRows) \cup Scenarios}

\* Small tables for two sessions at once.
ConcRows == {MkRow(1, 1, c, Timestamp(30)) : c \in {1, 2}}
ConcTables ==
  {Table(required_columns, rows) : rows \in SeqsUpTo(ConcRows, MaxRowsConc)}

\* One session with a file, the columns and start times varied.
Init == InitWith({[p \in Sessions |-> IF p = 1 THEN t ELSE None] : t \in ShellTables})
Spec == Init /\ [][Next]_vars

\* One session with a file, the names, e-mails and courses varied.
InitRoster == InitWith({[p \in Sessions |-> IF p = 1 THEN t ELSE None] : t \in RosterTables})
SpecRoster == InitRoster /\ [][Next]_vars

\* Two sessions with a file each.
InitConc == InitWith([Sessions -> ConcTables])
SpecConc == InitConc /\ [][Next]_vars

\* ----------------------------------------------------------------- claims
\* The documents session p's calls have written: those still on disk and the
\* one main has read for the download.
Docs(p) ==
  {files[f] : f \in {g \in DOMAIN files : g[1] = p /\ files[g].kind = "pdf"}}
    \cup (IF pdf_bytes[p].kind = "pdf" THEN {pdf_bytes[p]} ELSE {})

\* The rows session p uploaded.
Rows(p) == uploaded_file[p].rows

\* The distinct (fullName, contactEmail) pairs among a course's records.
PairsOf(rows, curso) == {Pair(rows[i]) : i \in {j \in DOMAIN rows : rows[j][CURSO] = curso}}
courseCount(rows, curso) == Cardinality(PairsOf(rows, curso))

RECURSIVE SumSeq(_)
SumSeq(s) == IF s = <<>> THEN 0 ELSE Head(s) + SumSeq(Tail(s))

\* A call of generate_report by session p has ended (returned or raised) and,
\* when main made it, main is done with the result.
CallOver(p) == pc[p] = "idle" /\ caller[p] # "none"

\* C1: once a call has ended, by return or by exception, and the caller has
\* read the result, none of the call's temporary files is left on disk.
C1_NoTempFileRemains ==
  \A p \in Sessions :
    (CallOver(p) /\ (result[p].kind = "raised" \/ caller[p] = "main"))
      => \A f \in DOMAIN files : f[1] # p

\* C2: the course sections of every document come in non-increasing order of
\* courseCount, the number of distinct (name, e-mail) pairs of the course.
C2_SectionsByCourseCount ==
  \A p \in Sessions : \A doc \in Docs(p) :
    \A i, j \in DOMAIN doc.sections :
      i < j => courseCount(Rows(p), doc.sections[i].curso)
                 >= courseCount(Rows(p), doc.sections[j].curso)

\* C3: every bar of the chart is as high as courseCount of its course, which
\* is the number of enrollees printed in the heading of the course's section.
C3_BarHeights ==
  \A p \in Sessions : \A doc \in Docs(p) :
    /\ doc.chart.kind = "png"
    /\ \A b \in DOMAIN doc.chart.figure.bars :
         LET bar == doc.chart.figure.bars[b]
         IN /\ bar.cantidad = courseCount(Rows(p), bar.curso)
            /\ \E k \in DOMAIN doc.sections :
                 /\ doc.sections[k].curso = bar.curso
                 /\ doc.sections[k].inscritos = bar.cantidad

\* A roster table lists exactly the pairs of its course, each once, by
\* ascending name (rows without a name after the named ones).
RosterOK(rows, sec) ==
  /\ SeqToSet(sec.tabla) = PairsOf(rows, sec.curso)
  /\ Len(sec.tabla) = courseCount(rows, sec.curso)
  /\ \A i, j \in DOMAIN sec.tabla :
       i < j => /\ sec.tabla[i][1] = NaN => sec.tabla[j][1] = NaN
                /\ (sec.tabla[i][1] # NaN /\ sec.tabla[j][1] # NaN)
                     => sec.tabla[i][1] <= sec.tabla[j][1]

\* C4: in every document, the roster table of every course holds each
\* (name, e-mail) pair of the course's records exactly once, no pair of
\* another course, and its rows are in ascending order of name.
C4_Roster ==
  \A p \in Sessions : \A doc \in Docs(p) :
    \A k \in DOMAIN doc.sections : RosterOK(Rows(p), doc.sections[k])

\* C4's case: a document with two sections, one of them for a course with a
\* repeated pair whose first-seen order is not the order of names.
C4_Witness ==
  \E doc \in Docs(1) :
    /\ Len(doc.sections) >= 2
    /\ \E k \in DOMAIN doc.sections :
         LET mine == RowsOf(Rows(1), doc.sections[k].curso)
         IN /\ Len(mine) > Len(doc.sections[k].tabla)
            /\ \E i, j \in DOMAIN mine : i < j /\ mine[i][NOMBRE] > mine[j][NOMBRE]

\* Session p's table has a start time that is a text no date can be read from.
HasUnparsable(p) ==
  /\ uploaded_file[p] # None
  /\ HORA \in uploaded_file[p].cols
  /\ \E i \in DOMAIN Rows(p) : Rows(p)[i][HORA].kind = "bad"

\* C5: with an unparsable start time in the table, generate_report never gets
\* past the conversion, returns no path and writes no document; the call
\* ends with an exception, the parser's when the table has all its columns.
C5_UnparsableFails ==
  \A p \in Sessions :
    HasUnparsable(p) =>
      /\ pc[p] \in {"idle", "m_columns", "m_stats", "g_tempfiles", "g_total", "g_fechas"}
      /\ result[p].kind # "path"
      /\ Docs(p) = {}
      /\ CallOver(p) => result[p].kind = "raised"
      /\ (CallOver(p) /\ uploaded_file[p].cols = required_columns)
           => result[p] = Raised("DateParseError")

\* C5's case: a call has ended on a table that has an unparsable start time
\* beside one that can be read.
C5_Witness ==
  \E p \in Sessions :
    /\ HasUnparsable(p)
    /\ uploaded_file[p].cols = required_columns
    /\ CallOver(p)
    /\ result[p].kind = "raised"
    /\ \E i \in DOMAIN Rows(p) : Rows(p)[i][HORA].kind \in {"ts", "text"}

\* C6: a call on a table that has the four columns and no rows ends with an
\* exception, returns no path and leaves no PDF file, finished or not, on disk.
C6_EmptyDatasetFailsClean ==
  \A p \in Sessions :
    (CallOver(p) /\ uploaded_file[p].cols = required_columns /\ Rows(p) = <<>>)
      => /\ result[p].kind = "raised"
         /\ \A f \in DOMAIN files : ~(f[1] = p /\ f[3] = "pdf")

\* C7: when the uploaded table lacks a required column, main never gets past
\* the column check: it never calls generate_report for the table, never
\* draws the button, and every run ends with the error that lists the
\* missing columns.
C7_MissingColumnsNeverBuilt ==
  \A p \in Sessions :
    (uploaded_file[p] # None /\ uploaded_file[p].cols # required_columns)
      => /\ caller[p] # "main"
         /\ pc[p] \notin {"m_stats", "m_button", "m_open", "m_unlink", "m_download"}
         /\ ~button[p]
         /\ (pc[p] = "idle" /\ caller[p] = "none" /\ df[p] # None)
              => msg[p] = [kind |-> "missing",
                           columns |-> required_columns \ uploaded_file[p].cols]

\* C7's case: a run on a table that lacks a column has ended with the error.
C7_Witness ==
  \E p \in Sessions :
    /\ uploaded_file[p] # None
    /\ uploaded_file[p].cols # required_columns
    /\ HORA \in uploaded_file[p].cols
    /\ Rows(p) # <<>>
    /\ pc[p] = "idle"
    /\ msg[p].kind = "missing"

\* The counts of a document's sections and of its chart's bars, summed.
SumInscritos(doc) == SumSeq([k \in DOMAIN doc.sections |-> doc.sections[k].inscritos])
SumBars(doc) == SumSeq([b \in DOMAIN doc.chart.figure.bars |-> doc.chart.figure.bars[b].cantidad])

\* C8: in every document the course counts of the sections sum to at least
\* the total of unique enrollees.
C8_SumAtLeastTotal ==
  \A p \in Sessions : \A doc \in Docs(p) :
    SumInscritos(doc) >= doc.total

\* What does hold of the sums: when every record of the table has a course
\* name, the course counts (the sections' and the bars') sum to at least the
\* total of unique enrollees.
SumAtLeastTotalWithCourses ==
  \A p \in Sessions : \A doc \in Docs(p) :
    (\A i \in DOMAIN Rows(p) : Rows(p)[i][CURSO] # NaN)
      => /\ SumInscritos(doc) >= doc.total
         /\ doc.chart.kind = "png" => SumBars(doc) >= doc.total

\* C9: after a call has returned or raised, the DataFrame the caller passed
\* in is as it was when passed in.
C9_InputUnchanged ==
  \A p \in Sessions : CallOver(p) => df[p] = df_in[p]

\* C10: with two sessions calling at once, the chart in every document shows
\* the bars of the session's own table and nothing else, as a call running
\* alone would draw them.
C10_NoInterference ==
  \A p \in Sessions : \A doc \in Docs(p) :
    /\ doc.chart.kind = "png"
    /\ doc.chart.figure.bars \in SortedByCantidad(Rows(p))
    /\ \A k \in DOMAIN doc.sections :
         /\ k \in DOMAIN doc.chart.figure.bars
         /\ doc.chart.figure.bars[k].curso = doc.sections[k].curso
    /\ doc.chart.figure.texts =
         [b \in DOMAIN doc.chart.figure.bars |-> doc.chart.figure.bars[b].cantidad]
====
